---- MODULE Spec2Model ----
(***************************************************************************)
(* Model of objects/chunks.py: the chunk variants of the canvas services   *)
(* (BigChunk, BigChunkPP, ChunkPz, PxlsBoard), their coordinate tiler      *)
(* get_intersecting, the bounds predicate is_in_bounds, the decode         *)
(* operation load, and equality / hashing of chunks.                       *)
(***************************************************************************)
EXTENDS Integers, Sequences, FiniteSets, TLC

VARIABLES
    call,     \* arguments of the last get_intersecting call (kind "none" before any)
    chunks,   \* chunk list returned by the last get_intersecting call
    shape,    \* (columns, rows) returned by the last get_intersecting call
    pc,       \* "ready" before the call returns, "returned" after
    obj,      \* the chunk object the caller operates on
    ret,      \* outcome of the last operation on obj
    other     \* right-hand operand of a comparison with obj

vars == <<call, chunks, shape, pc, obj, ret, other>>

(***************************************************************************)
(* Bounds of the model.                                                    *)
(***************************************************************************)
MaxGrid == 1      \* rectangles start near the grid lines -MaxGrid..MaxGrid
MaxExt == 2       \* small extents 0..MaxExt
MaxSpan == 1      \* large extents k*size + {-1,0,1}, k in 1..MaxSpan
MaxPixels == 2000 \* rectangles of at most this many pixels are tiled
EdgeSpan == 1     \* object grid coordinates up to EdgeSpan beyond the last in-bounds one

None == "None"

\* the attributes _image and _info hold None (Absent) or an object (Some)
Absent == <<>>

Some(v) == <<v>>

(***************************************************************************)
(* Python's // on integers: floor division (the divisor is positive here). *)
(***************************************************************************)
\* variant: division that truncates toward zero
TruncDiv(a, b) == IF a >= 0 THEN a \div b ELSE -((-a) \div b)

FloorDiv(a, b) == a \div b

(***************************************************************************)
(* Chunky.__init__ and the constructors of the variants.                   *)
(***************************************************************************)
Chunky(kind, x, y) == [kind |-> kind, x |-> x, y |-> y, image |-> Absent, info |-> Absent]

BigChunk(x, y) == Chunky("BigChunk", x, y)

BigChunkPP(x, y) == Chunky("BigChunkPP", x, y)

ChunkPz(x, y) == Chunky("ChunkPz", x, y)

PxlsBoard == Chunky("PxlsBoard", 0, 0)

NewChunk(kind, x, y) ==
    CASE kind = "BigChunk" -> BigChunk(x, y)
      [] kind = "BigChunkPP" -> BigChunkPP(x, y)
      [] kind = "ChunkPz" -> ChunkPz(x, y)

(***************************************************************************)
(* The properties p_x, p_y, width, height of the fixed-size variants.      *)
(***************************************************************************)
IsBig(c) == c.kind \in {"BigChunk", "BigChunkPP"}

\* variant: the origin offset is left out
p_x_NoOffset(c) ==
    CASE IsBig(c) -> c.x * 960
      [] c.kind = "ChunkPz" -> c.x * 512
      [] c.kind = "PxlsBoard" -> 0

p_x(c) ==
    CASE IsBig(c) -> c.x * 960 - 448
      [] c.kind = "ChunkPz" -> c.x * 512 - 4096
      [] c.kind = "PxlsBoard" -> 0

p_y(c) ==
    CASE IsBig(c) -> c.y * 960 - 448
      [] c.kind = "ChunkPz" -> c.y * 512 - 4096
      [] c.kind = "PxlsBoard" -> 0

\* the value a property returns, or the exception it raises
Value(v) == [exc |-> None, value |-> v]

Raise(e) == [exc |-> e, value |-> None]

\* PxlsBoard reads self._info['width']: subscripting None raises TypeError
width(c) ==
    CASE IsBig(c) -> Value(960)
      [] c.kind = "ChunkPz" -> Value(512)
      [] c.kind = "PxlsBoard" -> IF c.info = Absent THEN Raise("TypeError") ELSE Value(c.info[1].width)

height(c) ==
    CASE IsBig(c) -> Value(960)
      [] c.kind = "ChunkPz" -> Value(512)
      [] c.kind = "PxlsBoard" -> IF c.info = Absent THEN Raise("TypeError") ELSE Value(c.info[1].height)

(***************************************************************************)
(* is_in_bounds of each variant.                                           *)
(***************************************************************************)
\* variant: the upper limits are inclusive
is_in_bounds_Inclusive(c) ==
    CASE IsBig(c) -> -1043 <= c.x /\ c.x <= 1043 /\ -1043 <= c.y /\ c.y <= 1043
      [] c.kind = "ChunkPz" -> 0 <= c.x /\ c.x <= 16 /\ 0 <= c.y /\ c.y <= 16
      [] c.kind = "PxlsBoard" -> TRUE

is_in_bounds(c) ==
    CASE IsBig(c) -> -1043 <= c.x /\ c.x < 1043 /\ -1043 <= c.y /\ c.y < 1043
      [] c.kind = "ChunkPz" -> 0 <= c.x /\ c.x < 16 /\ 0 <= c.y /\ c.y < 16
      [] c.kind = "PxlsBoard" -> TRUE

(***************************************************************************)
(* The two nested loops of get_intersecting:                               *)
(*   for iy in range(y, dy + 1): for ix in range(x, dx + 1): append(...)   *)
(* InnerLoop is the loop over ix with stop = dx + 1, OuterLoop the loop    *)
(* over iy with stop = dy + 1; acc is the list built so far.               *)
(***************************************************************************)
\* variant: the loop over ix runs one step too far
RECURSIVE InnerLoop_OneMore(_, _, _, _, _)
InnerLoop_OneMore(kind, ix, stop, iy, acc) ==
    IF ix > stop THEN acc
    ELSE InnerLoop_OneMore(kind, ix + 1, stop, iy, Append(acc, NewChunk(kind, ix, iy)))

RECURSIVE InnerLoop(_, _, _, _, _)
InnerLoop(kind, ix, stop, iy, acc) ==
    IF ix >= stop THEN acc
    ELSE InnerLoop(kind, ix + 1, stop, iy, Append(acc, NewChunk(kind, ix, iy)))

RECURSIVE OuterLoop(_, _, _, _, _, _)
OuterLoop(kind, x, xstop, iy, ystop, acc) ==
    IF iy >= ystop THEN acc
    ELSE OuterLoop(kind, x, xstop, iy + 1, ystop, InnerLoop(kind, x, xstop, iy, acc))

BigChunk_get_intersecting(x, y, dx, dy) ==
    LET dx1 == FloorDiv(x + dx + 448, 960)
        dy1 == FloorDiv(y + dy + 448, 960)
        x1 == FloorDiv(x + 448, 960)
        y1 == FloorDiv(y + 448, 960)
    IN  <<OuterLoop("BigChunk", x1, dx1 + 1, y1, dy1 + 1, <<>>),
          <<dx1 - x1 + 1, dy1 - y1 + 1>>>>

BigChunkPP_get_intersecting(x, y, dx, dy) ==
    LET dx1 == FloorDiv(x + dx + 448, 960)
        dy1 == FloorDiv(y + dy + 448, 960)
        x1 == FloorDiv(x + 448, 960)
        y1 == FloorDiv(y + 448, 960)
    IN  <<OuterLoop("BigChunkPP", x1, dx1 + 1, y1, dy1 + 1, <<>>),
          <<dx1 - x1 + 1, dy1 - y1 + 1>>>>

ChunkPz_get_intersecting(x, y, dx, dy) ==
    LET xs == x + 4096
        ys == y + 4096
        dx1 == FloorDiv(xs + dx, 512)
        dy1 == FloorDiv(ys + dy, 512)
        x1 == FloorDiv(xs, 512)
        y1 == FloorDiv(ys, 512)
    IN  <<OuterLoop("ChunkPz", x1, dx1 + 1, y1, dy1 + 1, <<>>),
          <<dx1 - x1 + 1, dy1 - y1 + 1>>>>

PxlsBoard_get_intersecting(x, y, dx, dy) == <<(<<PxlsBoard>>), <<1, 1>>>>

get_intersecting(kind, x, y, dx, dy) ==
    CASE kind = "BigChunk" -> BigChunk_get_intersecting(x, y, dx, dy)
      [] kind = "BigChunkPP" -> BigChunkPP_get_intersecting(x, y, dx, dy)
      [] kind = "ChunkPz" -> ChunkPz_get_intersecting(x, y, dx, dy)
      [] kind = "PxlsBoard" -> PxlsBoard_get_intersecting(x, y, dx, dy)

(***************************************************************************)
(* Geometry of the services: tile size, origin offset and canvas limit of  *)
(* each fixed-size variant, and the rectangles the tiler is called with.   *)
(***************************************************************************)
FixedKinds == {"BigChunk", "BigChunkPP", "ChunkPz"}

SizeOf(kind) == IF kind = "ChunkPz" THEN 512 ELSE 960

OffsetOf(kind) == IF kind = "ChunkPz" THEN 4096 ELSE 448

CanvasLimit(kind) == IF kind = "ChunkPz" THEN 4096 ELSE 1000000

\* pixel coordinates one before, on and one after a grid line, and the
\* first and last pixel of the canvas
Origins(kind) ==
    {g * SizeOf(kind) - OffsetOf(kind) + d : g \in -MaxGrid..MaxGrid, d \in {-1, 0, 1}}
        \cup {-CanvasLimit(kind), CanvasLimit(kind) - 1}

Extents(kind) ==
    (0..MaxExt) \cup {k * SizeOf(kind) + e : k \in 1..MaxSpan, e \in {-1, 0, 1}}

ExtentPairs(kind) ==
    {p \in Extents(kind) \X Extents(kind) : p[1] * p[2] <= MaxPixels}

NoCall == [kind |-> "none", x |-> 0, y |-> 0, dx |-> 0, dy |-> 0]

NoRet == [op |-> "none", exc |-> None, value |-> None]

Calls(kind) ==
    {[kind |-> kind, x |-> x, y |-> y, dx |-> e[1], dy |-> e[2]] :
        x \in Origins(kind), y \in Origins(kind), e \in ExtentPairs(kind)}

(***************************************************************************)
(* Tiling: a caller holds the arguments of one get_intersecting call of a  *)
(* fixed-size variant, and the call returns the chunk list and the shape.  *)
(***************************************************************************)
InitTile ==
    /\ call \in UNION {Calls(kind) : kind \in FixedKinds}
    /\ chunks = <<>>
    /\ shape = <<0, 0>>
    /\ pc = "ready"
    /\ obj = None
    /\ ret = NoRet
    /\ other = None

\* the call returns r = (chunk list, shape)
Tile(r) ==
    /\ pc = "ready"
    /\ chunks' = r[1]
    /\ shape' = r[2]
    /\ pc' = "returned"
    /\ UNCHANGED <<call, obj, ret, other>>

BigChunkGetIntersecting ==
    /\ call.kind = "BigChunk"
    /\ Tile(BigChunk_get_intersecting(call.x, call.y, call.dx, call.dy))

BigChunkPPGetIntersecting ==
    /\ call.kind = "BigChunkPP"
    /\ Tile(BigChunkPP_get_intersecting(call.x, call.y, call.dx, call.dy))

ChunkPzGetIntersecting ==
    /\ call.kind = "ChunkPz"
    /\ Tile(ChunkPz_get_intersecting(call.x, call.y, call.dx, call.dy))

NextTile ==
    \/ BigChunkGetIntersecting
    \/ BigChunkPPGetIntersecting
    \/ ChunkPzGetIntersecting

SpecTile == InitTile /\ [][NextTile]_vars

(***************************************************************************)
(* BigChunk.load (inherited by BigChunkPP).  The payload is modelled by    *)
(* its length n in bytes; bio is a stream over it at position pos.  The    *)
(* raster is modelled by its 225 sub-blocks, keyed by the paste position   *)
(* (cx, cy): a sub-block is either Background (the fill colour of          *)
(* Image.new) or the stream offset its 2048 source bytes were read from.   *)
(* Image.frombuffer raises ValueError when bio.read returns fewer than     *)
(* 2048 bytes; self._image was assigned before the loops.                  *)
(***************************************************************************)
Background == -1

SubBlocks == {<<64 * i, 64 * j>> : i \in 0..14, j \in 0..14}

NewImage == [mode |-> "RGB", size |-> <<960, 960>>, blocks |-> [b \in SubBlocks |-> Background]]

\* the condition of the if statement that skips a sub-block
SkipBlock(c, cx, cy) ==
    \/ ~(-1000000 <= p_x(c) + cx /\ p_x(c) + cx < 1000000)
    \/ ~(-1000000 <= p_y(c) + cy /\ p_y(c) + cy < 1000000)

\* variant: a skipped sub-block does not advance the stream
RECURSIVE BigChunk_load_cx_NoSeek(_, _, _, _, _)
BigChunk_load_cx_NoSeek(c, n, cy, cx, st) ==
    IF cx >= 960 \/ st.exc # None THEN st
    ELSE IF SkipBlock(c, cx, cy)
         THEN BigChunk_load_cx_NoSeek(c, n, cy, cx + 64, st)
         ELSE IF n - st.pos < 2048
              THEN [st EXCEPT !.exc = "ValueError", !.pos = IF st.pos < n THEN n ELSE st.pos]
              ELSE BigChunk_load_cx_NoSeek(c, n, cy, cx + 64,
                       [st EXCEPT !.image.blocks[<<cx, cy>>] = st.pos, !.pos = st.pos + 2048])

\* for cx in range(0, 960, 64): the body for one sub-block; st is the
\* raster, the raised exception if any, and the stream position
RECURSIVE BigChunk_load_cx(_, _, _, _, _)
BigChunk_load_cx(c, n, cy, cx, st) ==
    IF cx >= 960 \/ st.exc # None THEN st
    ELSE IF SkipBlock(c, cx, cy)
         THEN BigChunk_load_cx(c, n, cy, cx + 64, [st EXCEPT !.pos = st.pos + 2048])
         ELSE IF n - st.pos < 2048
              THEN [st EXCEPT !.exc = "ValueError", !.pos = IF st.pos < n THEN n ELSE st.pos]
              ELSE BigChunk_load_cx(c, n, cy, cx + 64,
                       [st EXCEPT !.image.blocks[<<cx, cy>>] = st.pos, !.pos = st.pos + 2048])

\* for cy in range(0, 960, 64)
RECURSIVE BigChunk_load_cy(_, _, _, _)
BigChunk_load_cy(c, n, cy, st) ==
    IF cy >= 960 \/ st.exc # None THEN st
    ELSE BigChunk_load_cy(c, n, cy + 64, BigChunk_load_cx(c, n, cy, 0, st))

BigChunk_load(c, n) ==
    LET r == BigChunk_load_cy(c, n, 0, [image |-> NewImage, exc |-> None, pos |-> 0])
    IN  [obj |-> [c EXCEPT !.image = Some(r.image)], exc |-> r.exc, value |-> r.pos]

(***************************************************************************)
(* ChunkPz.load.  The payload is modelled by what each call of the decode  *)
(* pipeline does with it, in the order of the code; a field is "ok" or the *)
(* exception the call raises, which load does not catch:                   *)
(*   lz    LZString().decompressFromBase64(data): "ok" (text), or "None"   *)
(*         (it yields None, and "[" + None raises TypeError)               *)
(*   json  json.loads("[" + tmp + "]"): "ok", "JSONDecodeError" (the text  *)
(*         is not JSON), "RecursionError" (the text nests too deep)        *)
(*   bytes bytes(tmp): "ok" for a list of integers 0..255, "ValueError"    *)
(*         for an integer out of range(0, 256), "TypeError" for an         *)
(*         element that is not an integer                                  *)
(*   lz4   lz4.frame.decompress: "ok" or "RuntimeError"                    *)
(*   raw   length of the decompressed buffer (Image.frombytes raises       *)
(*         ValueError below 512*512/2 bytes), and id, its content.         *)
(* A call that raises ends load, and the assignment to self._image is      *)
(* never reached.                                                          *)
(***************************************************************************)
ChunkPz_load(c, d) ==
    IF d.lz = "None" THEN [obj |-> c, exc |-> "TypeError", value |-> None]
    ELSE IF d.lz # "ok" THEN [obj |-> c, exc |-> d.lz, value |-> None]
    ELSE IF d.json # "ok" THEN [obj |-> c, exc |-> d.json, value |-> None]
    ELSE IF d.bytes # "ok" THEN [obj |-> c, exc |-> d.bytes, value |-> None]
    ELSE IF d.lz4 # "ok" THEN [obj |-> c, exc |-> d.lz4, value |-> None]
    ELSE IF d.raw < (512 * 512) \div 2 THEN [obj |-> c, exc |-> "ValueError", value |-> None]
    ELSE [obj |-> [c EXCEPT !.image = Some([mode |-> "P", size |-> <<512, 512>>, data |-> d.id])],
          exc |-> None, value |-> None]

(***************************************************************************)
(* PxlsBoard: load, set_board_info.  The payload is modelled by its length *)
(* n; self._info['width'] raises TypeError while _info is None, and        *)
(* Image.frombytes raises ValueError on a payload shorter than             *)
(* width * height.                                                         *)
(***************************************************************************)
\* variant: a board without metadata decodes an empty raster
PxlsBoard_load_NoCheck(c, n) ==
    IF c.info = Absent
    THEN [obj |-> [c EXCEPT !.image = Some([mode |-> "P", size |-> <<0, 0>>, data |-> n])],
          exc |-> None, value |-> None]
    ELSE IF n < c.info[1].width * c.info[1].height
         THEN [obj |-> c, exc |-> "ValueError", value |-> None]
         ELSE [obj |-> [c EXCEPT !.image = Some([mode |-> "P",
                                                  size |-> <<c.info[1].width, c.info[1].height>>,
                                                  data |-> n])],
               exc |-> None, value |-> None]

PxlsBoard_load(c, n) ==
    IF c.info = Absent THEN [obj |-> c, exc |-> "TypeError", value |-> None]
    ELSE IF n < c.info[1].width * c.info[1].height
         THEN [obj |-> c, exc |-> "ValueError", value |-> None]
         ELSE [obj |-> [c EXCEPT !.image = Some([mode |-> "P",
                                                  size |-> <<c.info[1].width, c.info[1].height>>,
                                                  data |-> n])],
               exc |-> None, value |-> None]

set_board_info(c, info) == [c EXCEPT !.info = Some(info)]

(***************************************************************************)
(* Chunky.__eq__ and Chunky.__hash__.  In                                  *)
(*   type(other) is BigChunk or type(other is ChunkPz)                     *)
(* the second operand is the class bool (the type of the value of          *)
(* `other is ChunkPz`), and a class is truthy.  hash((x, y)) is a function *)
(* of the pair; the pair stands for its hash value.                        *)
(***************************************************************************)
TypeOfIsTest(c) == TRUE

Chunky_eq(self, c) ==
    IF c.kind = "BigChunk" \/ TypeOfIsTest(c)
    THEN self.y = c.y /\ self.x = c.x
    ELSE FALSE

Chunky_hash(self) == <<self.x, self.y>>

(***************************************************************************)
(* Objects and payloads of the lifecycle model.                            *)
(***************************************************************************)
\* grid coordinates around the first and last in-bounds coordinate, and 0
ObjCoords(kind) ==
    LET lo == IF kind = "ChunkPz" THEN 0 ELSE -1043
        hi == IF kind = "ChunkPz" THEN 15 ELSE 1042
    IN  {0} \cup UNION {{lo - e, lo + e, hi - e, hi + e} : e \in 0..EdgeSpan}

Objects ==
    {NewChunk(kind, x, y) : kind \in FixedKinds, x, y \in {0}} \cup {PxlsBoard}
        \cup UNION {{NewChunk(kind, x, y) : x, y \in ObjCoords(kind)} : kind \in FixedKinds}

\* payload lengths: empty, one byte short of a sub-block, whole sub-blocks,
\* one byte short of the whole tile, the whole tile
BigPayloads == {0, 2047, 2048, 13 * 2048, 225 * 2048 - 1, 225 * 2048}

GoodPayload(i) ==
    [lz |-> "ok", json |-> "ok", bytes |-> "ok", lz4 |-> "ok", raw |-> 131072, id |-> i]

\* two well-formed payloads, and payloads that fail at each call in turn
PzPayloads ==
    {GoodPayload(i) : i \in 1..2}
        \cup {[GoodPayload(1) EXCEPT !.lz = "None"],
              [GoodPayload(1) EXCEPT !.json = "JSONDecodeError"],
              [GoodPayload(1) EXCEPT !.json = "RecursionError"],
              [GoodPayload(1) EXCEPT !.bytes = "ValueError"],
              [GoodPayload(1) EXCEPT !.bytes = "TypeError"],
              [GoodPayload(1) EXCEPT !.bytes = "ValueError", !.lz4 = "RuntimeError"],
              [GoodPayload(1) EXCEPT !.lz4 = "RuntimeError"],
              [GoodPayload(1) EXCEPT !.raw = 131071],
              [GoodPayload(1) EXCEPT !.raw = 0]}

Infos == {[width |-> 2, height |-> 3], [width |-> 3, height |-> 1]}

PxlsPayloads(c) ==
    IF c.info = Absent THEN {0, 6}
    ELSE {0, c.info[1].width * c.info[1].height - 1, c.info[1].width * c.info[1].height}

PxlsRects == {<<x, y, dx, dy>> : x, y \in {-1, 0, 7}, dx, dy \in {0, 5}}

(***************************************************************************)
(* Lifecycle: a caller holds one constructed chunk and calls its methods.  *)
(***************************************************************************)
InitObj ==
    /\ call = NoCall
    /\ chunks = <<>>
    /\ shape = <<0, 0>>
    /\ pc = "ready"
    /\ obj \in Objects
    /\ ret = NoRet
    /\ other = None

Finish(r, op) ==
    /\ obj' = r.obj
    /\ ret' = [op |-> op, exc |-> r.exc, value |-> r.value]
    /\ UNCHANGED <<call, chunks, shape, pc, other>>

BigChunkLoad ==
    /\ IsBig(obj)
    /\ \E n \in BigPayloads : Finish(BigChunk_load(obj, n), "load")

ChunkPzLoad ==
    /\ obj.kind = "ChunkPz"
    /\ \E d \in PzPayloads : Finish(ChunkPz_load(obj, d), "load")

PxlsBoardLoad ==
    /\ obj.kind = "PxlsBoard"
    /\ \E n \in PxlsPayloads(obj) : Finish(PxlsBoard_load(obj, n), "load")

SetBoardInfo ==
    /\ obj.kind = "PxlsBoard"
    /\ \E info \in Infos :
        Finish([obj |-> set_board_info(obj, info), exc |-> None, value |-> None], "set_board_info")

ReadWidth ==
    /\ ret' = [op |-> "width", exc |-> width(obj).exc, value |-> width(obj).value]
    /\ UNCHANGED <<call, chunks, shape, pc, obj, other>>

ReadHeight ==
    /\ ret' = [op |-> "height", exc |-> height(obj).exc, value |-> height(obj).value]
    /\ UNCHANGED <<call, chunks, shape, pc, obj, other>>

IsInBounds ==
    /\ ret' = [op |-> "is_in_bounds", exc |-> None, value |-> is_in_bounds(obj)]
    /\ UNCHANGED <<call, chunks, shape, pc, obj, other>>

\* the caller takes the board returned by PxlsBoard.get_intersecting
PxlsBoardGetIntersecting ==
    \E r \in PxlsRects :
        LET res == PxlsBoard_get_intersecting(r[1], r[2], r[3], r[4])
        IN  /\ call' = [kind |-> "PxlsBoard", x |-> r[1], y |-> r[2], dx |-> r[3], dy |-> r[4]]
            /\ chunks' = res[1]
            /\ shape' = res[2]
            /\ pc' = "returned"
            /\ obj' = res[1][1]
            /\ ret' = NoRet
            /\ UNCHANGED other

NextObj ==
    \/ BigChunkLoad
    \/ ChunkPzLoad
    \/ PxlsBoardLoad
    \/ SetBoardInfo
    \/ ReadWidth
    \/ ReadHeight
    \/ IsInBounds
    \/ PxlsBoardGetIntersecting

SpecObj == InitObj /\ [][NextObj]_vars

(***************************************************************************)
(* Comparison: a caller holds two constructed chunks and compares them.    *)
(***************************************************************************)
EqObjects ==
    {NewChunk(kind, x, y) : kind \in FixedKinds, x, y \in 0..MaxGrid} \cup {PxlsBoard}

InitEq ==
    /\ call = NoCall
    /\ chunks = <<>>
    /\ shape = <<0, 0>>
    /\ pc = "ready"
    /\ obj \in EqObjects
    /\ other \in EqObjects
    /\ ret = NoRet

Eq ==
    /\ ret' = [op |-> "eq", exc |-> None, value |-> Chunky_eq(obj, other)]
    /\ UNCHANGED <<call, chunks, shape, pc, obj, other>>

Hash ==
    /\ ret' = [op |-> "hash", exc |-> None, value |-> <<Chunky_hash(obj), Chunky_hash(other)>>]
    /\ UNCHANGED <<call, chunks, shape, pc, obj, other>>

NextEq ==
    \/ Eq
    \/ Hash

SpecEq == InitEq /\ [][NextEq]_vars

(***************************************************************************)
(* Properties of the tiler.                                                *)
(***************************************************************************)
Returned == pc = "returned"

\* pixel (px, py) lies in the footprint [p_x, p_x+width) x [p_y, p_y+height) of c
InFootprint(c, px, py) ==
    /\ p_x(c) <= px /\ px < p_x(c) + width(c).value
    /\ p_y(c) <= py /\ py < p_y(c) + height(c).value

\* the footprint of c and the half-open rectangle of the call share a pixel
Overlaps(c) ==
    /\ p_x(c) < call.x + call.dx /\ call.x < p_x(c) + width(c).value
    /\ p_y(c) < call.y + call.dy /\ call.y < p_y(c) + height(c).value

\* C1: the returned list has exactly columns * rows chunks and is in strict
\* row-major order: the chunk at index i (from 0) has grid coordinate
\* (x0 + i mod columns, y0 + i div columns), (x0, y0) being the first chunk's.
C1_RowMajor ==
    Returned =>
        /\ Len(chunks) = shape[1] * shape[2]
        /\ \A i \in 1..Len(chunks) :
            /\ chunks[i].kind = call.kind
            /\ chunks[i].x = chunks[1].x + ((i - 1) % shape[1])
            /\ chunks[i].y = chunks[1].y + ((i - 1) \div shape[1])

C1_Witness ==
    /\ Returned
    /\ shape[1] >= 2 /\ shape[2] >= 2
    /\ chunks[1].x < 0
    /\ Len(chunks) >= 4

\* the footprints of c and d share no pixel
Disjoint(c, d) ==
    \/ p_x(c) + width(c).value <= p_x(d) \/ p_x(d) + width(d).value <= p_x(c)
    \/ p_y(c) + height(c).value <= p_y(d) \/ p_y(d) + height(d).value <= p_y(c)

\* C2: for extents >= 1 every pixel of the rectangle lies in the footprint
\* of exactly one returned chunk, and the footprints of the returned chunks
\* are pairwise disjoint.
C2_CoverExactlyOnce ==
    (Returned /\ call.dx >= 1 /\ call.dy >= 1) =>
        /\ \A px \in call.x..(call.x + call.dx - 1), py \in call.y..(call.y + call.dy - 1) :
            Cardinality({i \in 1..Len(chunks) : InFootprint(chunks[i], px, py)}) = 1
        /\ \A i, j \in 1..Len(chunks) : i # j => Disjoint(chunks[i], chunks[j])

C2_Witness ==
    /\ Returned
    /\ call.dx >= 2 /\ call.dy >= 2
    /\ Len(chunks) >= 4
    /\ call.x < 0

\* C3: for extents >= 1 every returned chunk overlaps the rectangle in at
\* least one pixel (the returned set is the minimal covering set).
C3_EveryChunkOverlaps ==
    (Returned /\ call.dx >= 1 /\ call.dy >= 1) =>
        \A i \in 1..Len(chunks) : Overlaps(chunks[i])

\* C8: moving the rectangle by one tile size along x (along y) moves the
\* returned grid range by exactly one column (row) and keeps the shape.
C8_Translation ==
    Returned =>
        LET size == SizeOf(call.kind)
            rx == get_intersecting(call.kind, call.x + size, call.y, call.dx, call.dy)
            ry == get_intersecting(call.kind, call.x, call.y + size, call.dx, call.dy)
        IN  /\ rx[2] = shape /\ ry[2] = shape
            /\ Len(rx[1]) = Len(chunks) /\ Len(ry[1]) = Len(chunks)
            /\ \A i \in 1..Len(chunks) :
                /\ rx[1][i].x = chunks[i].x + 1 /\ rx[1][i].y = chunks[i].y
                /\ ry[1][i].x = chunks[i].x /\ ry[1][i].y = chunks[i].y + 1

C8_Witness ==
    /\ Returned
    /\ call.x < 0 /\ call.y < 0
    /\ chunks[1].x < 0 /\ chunks[Len(chunks)].x >= 0
    /\ shape[1] >= 2

\* C10: a rectangle with extents >= 1 that lies inside the service's canvas
\* yields only chunks that satisfy is_in_bounds.
InsideCanvas ==
    LET L == CanvasLimit(call.kind)
    IN  /\ -L <= call.x /\ call.x + call.dx <= L
        /\ -L <= call.y /\ call.y + call.dy <= L

C10_InCanvasInBounds ==
    (Returned /\ call.dx >= 1 /\ call.dy >= 1 /\ InsideCanvas) =>
        \A i \in 1..Len(chunks) : is_in_bounds(chunks[i])

(***************************************************************************)
(* Properties of the chunk objects.                                        *)
(***************************************************************************)
\* C4: a load call that fails on a chunk whose raster is absent leaves the
\* raster absent.
C4_FailedLoadLeavesAbsent ==
    [][(ret'.op = "load" /\ ret'.exc # None /\ obj.image = Absent) => obj'.image = Absent]_vars

\* C5: two chunks compare equal exactly when they are of the same variant
\* kind and have the same grid coordinate.
C5_EqualIffSameKindAndCoord ==
    ret.op = "eq" =>
        (ret.value <=> (obj.kind = other.kind /\ obj.x = other.x /\ obj.y = other.y))

\* C6: is_in_bounds is the exact range check -1043 <= x, y <= 1042 for
\* BigChunk and BigChunkPP, 0 <= x, y <= 15 for ChunkPz, and always true for
\* PxlsBoard.
C6_InBoundsExact ==
    ret.op = "is_in_bounds" =>
        (ret.value <=>
            CASE IsBig(obj) -> obj.x \in -1043..1042 /\ obj.y \in -1043..1042
              [] obj.kind = "ChunkPz" -> obj.x \in 0..15 /\ obj.y \in 0..15
              [] obj.kind = "PxlsBoard" -> TRUE)

C6_Witness ==
    /\ ret.op = "is_in_bounds"
    /\ obj.kind = "BigChunk"
    /\ obj.x = 1043 /\ obj.y = -1043
    /\ ret.value = FALSE

\* C7: PxlsBoard.get_intersecting returns exactly one chunk (0, 0) and the
\* shape (1, 1) for every rectangle, and the board it returns carries no
\* metadata; on a board without metadata width, height and load raise and
\* leave the raster absent; after set_board_info width and height return
\* the metadata's width and height.
C7_BoundedBoard ==
    /\ (pc = "returned" /\ call.kind = "PxlsBoard") =>
        /\ Len(chunks) = 1
        /\ chunks[1].kind = "PxlsBoard" /\ chunks[1].x = 0 /\ chunks[1].y = 0
        /\ chunks[1].info = Absent
        /\ shape = <<1, 1>>
    /\ (obj.kind = "PxlsBoard" /\ obj.info = Absent /\ ret.op \in {"width", "height", "load"}) =>
        /\ ret.exc # None
        /\ obj.image = Absent
    /\ (obj.kind = "PxlsBoard" /\ obj.info # Absent /\ ret.op = "width") =>
        /\ ret.exc = None
        /\ ret.value = obj.info[1].width
    /\ (obj.kind = "PxlsBoard" /\ obj.info # Absent /\ ret.op = "height") =>
        /\ ret.exc = None
        /\ ret.value = obj.info[1].height

C7_Witness ==
    /\ pc = "returned" /\ call.kind = "PxlsBoard"
    /\ call.x = 7 /\ call.dx = 5
    /\ obj.kind = "PxlsBoard" /\ obj.info = Absent
    /\ ret.op = "load" /\ ret.exc = "TypeError"

\* C9: after BigChunk.load, sub-block k (row-major, at cx = 64*(k mod 15),
\* cy = 64*(k div 15)) is at the background colour if any pixel of its
\* 64x64 footprint lies outside [-1000000, 1000000) on either axis, and a
\* decoded sub-block was read from the source bytes starting at 2048*k; a
\* load that completes has decoded every other sub-block and consumed
\* 2048 bytes per sub-block.
OutsideCanvas(c, cx, cy) ==
    \/ \E px \in (p_x(c) + cx)..(p_x(c) + cx + 63) : ~(-1000000 <= px /\ px < 1000000)
    \/ \E py \in (p_y(c) + cy)..(p_y(c) + cy + 63) : ~(-1000000 <= py /\ py < 1000000)

C9_SubBlocks ==
    (IsBig(obj) /\ ret.op = "load") =>
        /\ obj.image # Absent
        /\ ret.exc = None => ret.value = 225 * 2048
        /\ \A i \in 0..14, j \in 0..14 :
            LET b == obj.image[1].blocks[<<64 * i, 64 * j>>]
                k == 15 * j + i
            IN  /\ OutsideCanvas(obj, 64 * i, 64 * j) => b = Background
                /\ b # Background => b = 2048 * k
                /\ (ret.exc = None /\ ~OutsideCanvas(obj, 64 * i, 64 * j)) => b = 2048 * k

C9_Witness ==
    /\ IsBig(obj) /\ ret.op = "load" /\ ret.exc = None
    /\ obj.x = -1042
    /\ obj.image[1].blocks[<<704, 0>>] = Background
    /\ obj.image[1].blocks[<<768, 0>>] = 12 * 2048

====
